---- MODULE Spec2Model ----
(***************************************************************************)
(* Model of the template-driven CSS rule engine of trees/css/css.go, and   *)
(* of the asset bundler (package assets: Webpack) that takes its output.   *)
(*                                                                         *)
(* A Go string is a sequence of one-character strings.  The character "!"  *)
(* abbreviates the keyword "!important" and "@" starts an at-rule name.    *)
(* A nil pointer is the empty sequence <<>> and a pointer to x is <<x>>.   *)
(***************************************************************************)
EXTENDS Integers, Sequences, FiniteSets, TLC

VARIABLES rules, stack, arg, ret, writer, fn, webpack, build, compiled

\* The variables of the bundler, and those of the rule engine's pure
\* functions when they are applied on their own.
packVars == <<webpack, build, compiled>>
vars == <<rules, stack, arg, ret, writer, fn, webpack, build, compiled>>

----------------------------------------------------------------------------
(* Go strings: package strings, as used by css.go.                         *)

IsSpace(c) == c \in {" ", "\n"}

RECURSIVE TrimLeft(_)
TrimLeft(s) ==
  IF s # <<>> /\ IsSpace(Head(s)) THEN TrimLeft(Tail(s)) ELSE s

RECURSIVE TrimRight(_)
TrimRight(s) ==
  IF s # <<>> /\ IsSpace(s[Len(s)]) THEN TrimRight(SubSeq(s, 1, Len(s) - 1)) ELSE s

\* strings.TrimSpace
TrimSpace(s) == TrimRight(TrimLeft(s))

\* strings.Contains, for a one-character substring
Contains(s, c) == \E i \in 1..Len(s) : s[i] = c

\* strings.HasPrefix, for a one-character prefix
HasPrefix(s, c) == s # <<>> /\ Head(s) = c

\* strings.Replace(s, old, new, -1), for a one-character old
RECURSIVE Replace(_, _, _)
Replace(s, old, new) ==
  IF s = <<>> THEN <<>>
  ELSE (IF Head(s) = old THEN new ELSE <<Head(s)>>) \o Replace(Tail(s), old, new)

\* strings.Join
RECURSIVE Join(_, _)
Join(parts, sep) ==
  IF parts = <<>> THEN <<>>
  ELSE IF Len(parts) = 1 THEN parts[1]
  ELSE parts[1] \o sep \o Join(Tail(parts), sep)

\* The index of the first character of s that is in the set cs, 0 when none.
RECURSIVE IndexAny(_, _)
IndexAny(s, cs) ==
  IF s = <<>> THEN 0
  ELSE IF Head(s) \in cs THEN 1
  ELSE LET i == IndexAny(Tail(s), cs) IN IF i = 0 THEN 0 ELSE i + 1

\* strings.Split, for a one-character separator
RECURSIVE Split(_, _)
Split(s, sep) ==
  LET i == IndexAny(s, {sep})
  IN IF i = 0 THEN <<s>>
     ELSE <<SubSeq(s, 1, i - 1)>> \o Split(SubSeq(s, i + 1, Len(s)), sep)

----------------------------------------------------------------------------
(* The pointers of the program.                                            *)

Nil == <<>>
Ptr(x) == <<x>>
Deref(p) == p[1]

----------------------------------------------------------------------------
(* The stylesheet data of github.com/aymerick/douceur/css, as css.go reads *)
(* and writes it: a Stylesheet is [Rules : Seq(Rule)], a Rule is           *)
(*   [Kind, Name, Prelude, Selectors, Declarations, Rules]                 *)
(* and a Declaration is [Property, Value, Important].                      *)

QualifiedRule == "QualifiedRule"
AtRule == "AtRule"

\* Declaration.String() and Declaration.StringWithImportant(true):
\* "property: value;" or "property: value !important;".
DeclString(prop) ==
  prop.Property \o <<":", " ">> \o prop.Value
    \o (IF prop.Important THEN <<" ", "!">> ELSE <<>>) \o <<";">>

\* The declarations block of a qualified rule, read up to its closing "}":
\* [ok, decls, rest].
RECURSIVE ParseDeclarations(_)
ParseDeclarations(s) ==
  LET t == TrimLeft(s)
      bad == [ok |-> FALSE, decls |-> <<>>, rest |-> <<>>]
  IN IF t = <<>> THEN bad
     ELSE IF Head(t) = "}" THEN [ok |-> TRUE, decls |-> <<>>, rest |-> Tail(t)]
     ELSE
       LET i == IndexAny(t, {":", ";", "{", "}"})
       IN IF i = 0 \/ t[i] # ":" \/ TrimSpace(SubSeq(t, 1, i - 1)) = <<>> THEN bad
          ELSE
            LET after == SubSeq(t, i + 1, Len(t))
                j == IndexAny(after, {";", "{", "}"})
            IN IF j = 0 \/ after[j] = "{" THEN bad
               ELSE
                 LET raw == TrimSpace(SubSeq(after, 1, j - 1))
                     imp == raw # <<>> /\ raw[Len(raw)] = "!"
                     val == IF imp THEN TrimSpace(SubSeq(raw, 1, Len(raw) - 1)) ELSE raw
                     more == ParseDeclarations(
                               IF after[j] = ";" THEN SubSeq(after, j + 1, Len(after))
                               ELSE SubSeq(after, j, Len(after)))
                     decl == [Property |-> TrimSpace(SubSeq(t, 1, i - 1)),
                              Value |-> val, Important |-> imp]
                 IN IF val = <<>> \/ Contains(val, "!") \/ ~more.ok THEN bad
                    ELSE [ok |-> TRUE, decls |-> <<decl>> \o more.decls, rest |-> more.rest]

\* The selectors of a prelude: split at commas, each one trimmed.
RECURSIVE TrimAll(_)
TrimAll(parts) ==
  IF parts = <<>> THEN <<>> ELSE <<TrimSpace(Head(parts))>> \o TrimAll(Tail(parts))

\* A list of rules: [ok, rules, rest].  Inside an at-rule (nested) the list
\* ends at the "}" that closes the at-rule, at top level at the end of input.
RECURSIVE ParseRules(_, _)
ParseRules(s, nested) ==
  LET t == TrimLeft(s)
      bad == [ok |-> FALSE, rules |-> <<>>, rest |-> <<>>]
  IN IF t = <<>> THEN (IF nested THEN bad ELSE [ok |-> TRUE, rules |-> <<>>, rest |-> <<>>])
     ELSE IF Head(t) = "}"
       THEN (IF nested THEN [ok |-> TRUE, rules |-> <<>>, rest |-> Tail(t)] ELSE bad)
     ELSE
       LET i == IndexAny(t, {"{", "}", ";"})
       IN IF i = 0 \/ t[i] # "{" \/ TrimSpace(SubSeq(t, 1, i - 1)) = <<>> THEN bad
          ELSE
            LET pre == TrimSpace(SubSeq(t, 1, i - 1))
                body == SubSeq(t, i + 1, Len(t))
            IN IF Head(pre) = "@"
               THEN
                 LET k == IndexAny(pre, {" "})
                     inner == ParseRules(body, TRUE)
                     more == ParseRules(inner.rest, nested)
                     rule == [Kind |-> AtRule,
                              Name |-> IF k = 0 THEN pre ELSE SubSeq(pre, 1, k - 1),
                              Prelude |-> IF k = 0 THEN <<>>
                                          ELSE TrimSpace(SubSeq(pre, k, Len(pre))),
                              Selectors |-> <<>>, Declarations |-> <<>>,
                              Rules |-> inner.rules]
                 IN IF ~inner.ok \/ ~more.ok THEN bad
                    ELSE [ok |-> TRUE, rules |-> <<rule>> \o more.rules, rest |-> more.rest]
               ELSE
                 LET block == ParseDeclarations(body)
                     more == ParseRules(block.rest, nested)
                     rule == [Kind |-> QualifiedRule, Name |-> <<>>, Prelude |-> pre,
                              Selectors |-> TrimAll(Split(pre, ",")),
                              Declarations |-> block.decls, Rules |-> <<>>]
                 IN IF ~block.ok \/ ~more.ok THEN bad
                    ELSE [ok |-> TRUE, rules |-> <<rule>> \o more.rules, rest |-> more.rest]

\* parser.Parse(text): [ok, sheet].
Parse(text) ==
  LET r == ParseRules(text, FALSE)
  IN [ok |-> r.ok, sheet |-> [Rules |-> r.rules]]

----------------------------------------------------------------------------
(* Rule.extend, over the value of r.feedStyle.                             *)

RECURSIVE DeclStrings(_)
DeclStrings(decls) ==
  IF decls = <<>> THEN <<>> ELSE <<DeclString(Head(decls))>> \o DeclStrings(Tail(decls))

\* ExtendAttrs without the break: the loop goes on after a match.
RECURSIVE ExtendAttrsAll(_, _)
ExtendAttrsAll(rs, item) ==
  IF rs = <<>> THEN <<>>
  ELSE IF Head(rs).Prelude # item THEN ExtendAttrsAll(Tail(rs), item)
  ELSE DeclStrings(Head(rs).Declarations) \o ExtendAttrsAll(Tail(rs), item)

\* The loop of extend: the attrs collected from the first rule whose
\* Prelude is item (the loop breaks there), none when no rule has it.
RECURSIVE ExtendAttrs(_, _)
ExtendAttrs(rs, item) ==
  IF rs = <<>> THEN <<>>
  ELSE IF Head(rs).Prelude # item THEN ExtendAttrs(Tail(rs), item)
  ELSE DeclStrings(Head(rs).Declarations)

extend(feedStyle, item) ==
  IF feedStyle = Nil THEN <<>>
  ELSE Join(ExtendAttrs(Deref(feedStyle).Rules, item), <<"\n">>)

----------------------------------------------------------------------------
(* Selector rewriting: Rule.adjustName and Rule.morphRule.                 *)

\* adjustName with its cases in the other order: the leading ':' is looked
\* for before the '&'.
adjustNamePrefixFirst(sel, parentNode) ==
  LET s == TrimSpace(sel)
  IN IF HasPrefix(s, ":") THEN parentNode \o s
     ELSE IF Contains(s, "&") THEN Replace(s, "&", parentNode)
     ELSE s

\* adjustName with a default case that scopes the selector under the parent.
adjustNameScoping(sel, parentNode) ==
  LET s == TrimSpace(sel)
  IN IF Contains(s, "&") THEN Replace(s, "&", parentNode)
     ELSE IF HasPrefix(s, ":") THEN parentNode \o s
     ELSE parentNode \o <<" ">> \o s

adjustName(sel, parentNode) ==
  LET s == TrimSpace(sel)
  IN IF Contains(s, "&") THEN Replace(s, "&", parentNode)
     ELSE IF HasPrefix(s, ":") THEN parentNode \o s
     ELSE s

RECURSIVE AdjustAll(_, _)
AdjustAll(sels, parentNode) ==
  IF sels = <<>> THEN <<>>
  ELSE <<adjustName(Head(sels), parentNode)>> \o AdjustAll(Tail(sels), parentNode)

\* MorphNested that stops at the first level: the selectors of the nested
\* rules are rewritten, the rules inside a nested at-rule are not.
RECURSIVE MorphNestedShallow(_, _)
MorphNestedShallow(rs, parentNode) ==
  IF rs = <<>> THEN <<>>
  ELSE <<[Head(rs) EXCEPT !.Selectors = AdjustAll(@, parentNode)]>>
       \o MorphNestedShallow(Tail(rs), parentNode)

RECURSIVE morphRule(_, _)
RECURSIVE MorphNested(_, _)
MorphNested(rs, parentNode) ==
  IF rs = <<>> THEN <<>>
  ELSE <<IF Head(rs).Kind = AtRule THEN morphRule(Head(rs), parentNode)
         ELSE [Head(rs) EXCEPT !.Selectors = AdjustAll(@, parentNode)]>>
       \o MorphNested(Tail(rs), parentNode)

morphRule(base, parentNode) ==
  [base EXCEPT !.Selectors = AdjustAll(@, parentNode),
               !.Rules = MorphNested(@, parentNode)]

RECURSIVE MorphRules(_, _)
MorphRules(rs, parentNode) ==
  IF rs = <<>> THEN <<>>
  ELSE <<morphRule(Head(rs), parentNode)>> \o MorphRules(Tail(rs), parentNode)

----------------------------------------------------------------------------
(* Templates (text/template) and their execution.  A compiled template is  *)
(* a sequence of nodes: literal text, the field action {{.Color}} and the  *)
(* call {{extend "item"}}.  A binding is [has, Color]: has is FALSE for a  *)
(* value without a Color field, on which {{.Color}} fails.                 *)

Text(s) == [op |-> "text", s |-> s]
Field == [op |-> "field", s |-> <<>>]
Extend(item) == [op |-> "extend", s |-> item]

\* template.Execute(&content, bind): [ok, content].  The nodes are written
\* in order; a failing node stops the execution and leaves what was
\* written before it in content.
RECURSIVE Execute(_, _, _, _)
Execute(nodes, bind, feedStyle, content) ==
  IF nodes = <<>> THEN [ok |-> TRUE, content |-> content]
  ELSE LET n == Head(nodes)
       IN IF n.op = "text"
            THEN Execute(Tail(nodes), bind, feedStyle, content \o n.s)
          ELSE IF n.op = "extend"
            THEN Execute(Tail(nodes), bind, feedStyle, content \o extend(feedStyle, n.s))
          ELSE IF bind.has
            THEN Execute(Tail(nodes), bind, feedStyle, content \o bind.Color)
          ELSE [ok |-> FALSE, content |-> content]

\* a{c:{{.Color}} !important;e:r;}
TColor == <<Text(<<"a", "{", "c", ":">>), Field,
            Text(<<" ", "!", ";", "e", ":", "r", ";", "}">>)>>

\* a{d:g;} b{c:g;}
TTwo == <<Text(<<"a", "{", "d", ":", "g", ";", "}",
                 " ", "b", "{", "c", ":", "g", ";", "}">>)>>

\* &b, :h{ {{extend "a"}} }
TExt == <<Text(<<"&", "b", ",", " ", ":", "h", "{">>), Extend(<<"a">>), Text(<<"}">>)>>

\* the empty template
TEmpty == <<>>

\* b{c:r;   (the block is never closed)
TBad == <<Text(<<"b", "{", "c", ":", "r", ";">>)>>

\* &{c:r;} @m{ :h{c:{{.Color}};} @s{ & b{d:g;} } }
TMedia == <<Text(<<"&", "{", "c", ":", "r", ";", "}", " ", "@", "m", "{",
                   ":", "h", "{", "c", ":">>), Field,
            Text(<<";", "}", "@", "s", "{", "&", " ", "b", "{", "d", ":", "g", ";", "}",
                   "}", "}">>)>>

----------------------------------------------------------------------------
(* Rules.  The heap is a sequence of Rule structs, a *Rule is an index     *)
(* into it and 0 is the nil *Rule.                                         *)

\* New(rules, extension, rs...): the heap with the new Rule appended.
\* New that takes the rule under construction for its feed when it is given
\* no extension.
NewFeedingItself(heap, template, extension, rs) ==
  Append(heap, [template |-> template,
                feed |-> IF extension = 0 THEN Len(heap) + 1 ELSE extension,
                feedStyle |-> Nil, depends |-> rs])

New(heap, template, extension, rs) ==
  Append(heap, [template |-> template, feed |-> extension,
                feedStyle |-> Nil, depends |-> rs])

\* The rules of the program, in construction order.
Heap ==
  LET h1 == New(<<>>, TColor, 0, <<>>)
      h2 == New(h1, TTwo, 0, <<1>>)
      h3 == New(h2, TExt, 2, <<>>)
      h4 == New(h3, TEmpty, 2, <<>>)
      h5 == New(h4, TExt, 0, <<>>)
      h6 == New(h5, TBad, 0, <<5>>)
      h7 == New(h6, TMedia, 3, <<1, 3, 4>>)
      h8 == New(h7, TColor, 0, <<5>>)
      h9 == New(h8, TExt, 0, <<1, 6, 1>>)
  IN h9

\* The bindings a caller passes: values with a Color field, of NumColors
\* different colours, and a value without the field.
NumColors == 2
Colors == <<"r", "g", "y", "k">>
Bind(i) == [has |-> TRUE, Color |-> <<Colors[i]>>]
BindR == Bind(1)
BindG == Bind(2)
BindNone == [has |-> FALSE, Color |-> <<>>]
Bindings == {Bind(i) : i \in 1..NumColors} \cup {BindNone}

Parents == {<<".", "p">>, <<"q">>}

Threads == {1, 2}

----------------------------------------------------------------------------
(* Rule.Stylesheet as a call tree.  stack[t] is the call stack of thread   *)
(* t, innermost call last; arg[t] is the (bind, parentNode) pair that the  *)
(* calls of the tree pass down unchanged; ret[t] is what the outermost     *)
(* call returned to its caller; writer[r] names the thread and the         *)
(* arguments of the call that last assigned rules[r].feedStyle (history).  *)
(* A frame holds the locals of one call:                                   *)
(*   r          the receiver                                               *)
(*   pc         "feed" (line 87), "depends" (the loop of line 99),         *)
(*              "return" (the call has its result)                         *)
(*   index      the position of the loop over r.depends                    *)
(*   stylesheet the Rules of the local stylesheet                          *)
(*   sheet      the sheet the feed returned (line 88), nil before          *)
(*   calls      the calls this frame has made, in order, each with the     *)
(*              result it returned (nil while it runs)                     *)
(*   executed   whether the template was executed                          *)
(*   seen       the value of r.feedStyle that extend read during the       *)
(*              execution, with the call that had stored it                *)
(*   result     (sheet, err) once pc = "return"                            *)

Result(sheet, err) == [sheet |-> sheet, err |-> err]
Failure(kind, r) == Ptr([kind |-> kind, rule |-> r])

Frame(r) ==
  [r |-> r, pc |-> "feed", index |-> 1, stylesheet |-> <<>>, sheet |-> Nil,
   calls |-> <<>>, executed |-> FALSE, seen |-> Nil, result |-> Nil]

Top(t) == stack[t][Len(stack[t])]
Caller(t) == stack[t][Len(stack[t]) - 1]

\* The stack with its innermost frame replaced by f.
SetTop(st, f) == [st EXCEPT ![Len(st)] = f]

\* The frame f having called rule r as its feed or as a depends entry.
Calling(f, role, r) ==
  [f EXCEPT !.calls = Append(@, [role |-> role, rule |-> r, result |-> Nil])]

\* The frame f with the result of the call it was waiting for.
Called(f, result) ==
  [f EXCEPT !.calls[Len(f.calls)].result = Ptr(result)]

\* No pure function is being applied on its own, and no bundler is in use.
NoFn == fn = Nil
NoPack == webpack = Nil /\ build = Nil /\ compiled = Nil

Init ==
  /\ rules = Heap
  /\ stack = [t \in Threads |-> <<>>]
  /\ arg = [t \in Threads |-> Nil]
  /\ ret = [t \in Threads |-> Nil]
  /\ writer = [r \in 1..Len(Heap) |-> Nil]
  /\ NoFn
  /\ NoPack

\* A caller invokes r.Stylesheet(bind, parentNode) on thread t.
Call(t, r, bind, parentNode) ==
  /\ stack[t] = <<>>
  /\ stack' = [stack EXCEPT ![t] = <<Frame(r)>>]
  /\ arg' = [arg EXCEPT ![t] = Ptr([r |-> r, bind |-> bind, parentNode |-> parentNode])]
  /\ ret' = [ret EXCEPT ![t] = Nil]
  /\ UNCHANGED <<rules, writer, fn, packVars>>

\* Line 87 with a nil feed: on to the depends loop.
NoFeed(t) ==
  /\ stack[t] # <<>>
  /\ Top(t).pc = "feed"
  /\ rules[Top(t).r].feed = 0
  /\ stack' = [stack EXCEPT ![t] = SetTop(@, [Top(t) EXCEPT !.pc = "depends"])]
  /\ UNCHANGED <<rules, arg, ret, writer, fn, packVars>>

\* Line 88: r.feed.Stylesheet(bind, parentNode) is called.
ResolveFeed(t) ==
  /\ stack[t] # <<>>
  /\ Top(t).pc = "feed"
  /\ rules[Top(t).r].feed # 0
  /\ stack' = [stack EXCEPT ![t] =
                 Append(SetTop(@, Calling(Top(t), "feed", rules[Top(t).r].feed)),
                        Frame(rules[Top(t).r].feed))]
  /\ UNCHANGED <<rules, arg, ret, writer, fn, packVars>>

\* FeedReturned with the feed treated like a depends entry: its rules are
\* appended to the local stylesheet.
FeedReturnedMerging(f, result) ==
  IF result.err # Nil
    THEN [Called(f, result) EXCEPT !.pc = "return", !.result = Ptr(Result(Nil, result.err))]
    ELSE [Called(f, result) EXCEPT !.pc = "depends", !.sheet = result.sheet,
                                   !.stylesheet = @ \o Deref(result.sheet).Rules]

\* FeedReturned without the check of err: the call goes on to the depends.
FeedReturnedUnchecked(f, result) ==
  [Called(f, result) EXCEPT !.pc = "depends", !.sheet = result.sheet]

\* Lines 88-93, in the caller, once the feed's call has its result: the
\* caller's frame.
FeedReturned(f, result) ==
  IF result.err # Nil
    THEN [Called(f, result) EXCEPT !.pc = "return", !.result = Ptr(Result(Nil, result.err))]
    ELSE [Called(f, result) EXCEPT !.pc = "depends", !.sheet = result.sheet]

\* StoreFeedStyle that assigns the feed's field: r.feed.feedStyle = sheet.
StoreFeedStyleInFeed(heap, r, sheet) ==
  [heap EXCEPT ![heap[r].feed].feedStyle = sheet]

\* StoreFeedStyle that keeps a feedStyle already set.
StoreFeedStyleOnce(heap, r, sheet) ==
  IF heap[r].feedStyle # Nil THEN heap ELSE [heap EXCEPT ![r].feedStyle = sheet]

\* Line 93: r.feedStyle = sheet.
StoreFeedStyle(heap, r, sheet) ==
  [heap EXCEPT ![r].feedStyle = sheet]

\* Lines 88-93 with the assignment ahead of the error check: the sheet of
\* a failed feed, which is nil, is stored too.
FeedStyleStoredUnchecked(heap, r, result) ==
  StoreFeedStyle(heap, r, result.sheet)

\* Lines 88-93, on the heap: a feed that failed returns from the call at
\* line 90, before the assignment of line 93.
FeedStyleStored(heap, r, result) ==
  IF result.err # Nil THEN heap ELSE StoreFeedStyle(heap, r, result.sheet)

FeedReturns(t) ==
  /\ Len(stack[t]) >= 2
  /\ Top(t).pc = "return"
  /\ Caller(t).pc = "feed"
  /\ LET result == Deref(Top(t).result)
         st == SubSeq(stack[t], 1, Len(stack[t]) - 1)
     IN /\ stack' = [stack EXCEPT ![t] = SetTop(st, FeedReturned(Caller(t), result))]
        /\ rules' = FeedStyleStored(rules, Caller(t).r, result)
        /\ writer' = IF result.err # Nil THEN writer
                     ELSE [writer EXCEPT ![Caller(t).r] =
                             Ptr([thread |-> t, bind |-> Deref(arg[t]).bind,
                                  parentNode |-> Deref(arg[t]).parentNode])]
  /\ UNCHANGED <<arg, ret, fn, packVars>>

\* Line 100: the next entry of r.depends is called.
ResolveDepends(t) ==
  /\ stack[t] # <<>>
  /\ Top(t).pc = "depends"
  /\ Top(t).index <= Len(rules[Top(t).r].depends)
  /\ LET rule == rules[Top(t).r].depends[Top(t).index]
     IN stack' = [stack EXCEPT ![t] =
                    Append(SetTop(@, Calling(Top(t), "depends", rule)), Frame(rule))]
  /\ UNCHANGED <<rules, arg, ret, writer, fn, packVars>>

\* DependsReturned with the entry's rules put in front of the local
\* stylesheet's.
DependsReturnedPrepending(f, result) ==
  IF result.err # Nil
    THEN [Called(f, result) EXCEPT !.pc = "return", !.result = Ptr(Result(Nil, result.err))]
    ELSE [Called(f, result) EXCEPT
            !.stylesheet = Deref(result.sheet).Rules \o @,
            !.index = @ + 1]

\* DependsReturned with a failing entry skipped: the loop goes on.
DependsReturnedSkipping(f, result) ==
  IF result.err # Nil
    THEN [Called(f, result) EXCEPT !.index = @ + 1]
    ELSE [Called(f, result) EXCEPT
            !.stylesheet = @ \o Deref(result.sheet).Rules,
            !.index = @ + 1]

\* Lines 100-105, in the caller, once the entry's call has its result: the
\* caller's frame.
DependsReturned(f, result) ==
  IF result.err # Nil
    THEN [Called(f, result) EXCEPT !.pc = "return", !.result = Ptr(Result(Nil, result.err))]
    ELSE [Called(f, result) EXCEPT
            !.stylesheet = @ \o Deref(result.sheet).Rules,
            !.index = @ + 1]

DependsReturns(t) ==
  /\ Len(stack[t]) >= 2
  /\ Top(t).pc = "return"
  /\ Caller(t).pc = "depends"
  /\ LET result == Deref(Top(t).result)
         st == SubSeq(stack[t], 1, Len(stack[t]) - 1)
     IN stack' = [stack EXCEPT ![t] = SetTop(st, DependsReturned(Caller(t), result))]
  /\ UNCHANGED <<rules, arg, ret, writer, fn, packVars>>

\* Render that returns the depends' rules along with the error.
RenderPartial(r, template, feedStyle, stylesheet, bind, parentNode) ==
  LET exec == Execute(template, bind, feedStyle, <<>>)
      parsed == Parse(exec.content)
  IN IF ~exec.ok THEN Result(Ptr([Rules |-> stylesheet]), Failure("execute", r))
     ELSE IF ~parsed.ok THEN Result(Ptr([Rules |-> stylesheet]), Failure("parse", r))
     ELSE Result(Ptr([Rules |-> stylesheet \o MorphRules(parsed.sheet.Rules, parentNode)]),
                 Nil)

\* Lines 109-125 for rule r: the template is executed (extend reads
\* feedStyle), its output parsed, every parsed rule morphed and the rules
\* appended to those of the depends: the result of the call.
Render(r, template, feedStyle, stylesheet, bind, parentNode) ==
  LET exec == Execute(template, bind, feedStyle, <<>>)
      parsed == Parse(exec.content)
  IN IF ~exec.ok THEN Result(Nil, Failure("execute", r))
     ELSE IF ~parsed.ok THEN Result(Nil, Failure("parse", r))
     ELSE Result(Ptr([Rules |-> stylesheet \o MorphRules(parsed.sheet.Rules, parentNode)]),
                 Nil)

\* Lines 109-125, after the last depends entry.
Template(t) ==
  /\ stack[t] # <<>>
  /\ Top(t).pc = "depends"
  /\ Top(t).index > Len(rules[Top(t).r].depends)
  /\ LET f == Top(t)
         a == Deref(arg[t])
         result == Render(f.r, rules[f.r].template, rules[f.r].feedStyle,
                          f.stylesheet, a.bind, a.parentNode)
     IN stack' = [stack EXCEPT ![t] =
                    SetTop(@, [f EXCEPT !.pc = "return", !.executed = TRUE,
                                        !.seen = Ptr([feedStyle |-> rules[f.r].feedStyle,
                                                      by |-> writer[f.r]]),
                                        !.result = Ptr(result)])]
  /\ UNCHANGED <<rules, arg, ret, writer, fn, packVars>>

\* The outermost call returns to its caller.
Return(t) ==
  /\ Len(stack[t]) = 1
  /\ Top(t).pc = "return"
  /\ stack' = [stack EXCEPT ![t] = <<>>]
  /\ ret' = [ret EXCEPT ![t] = Top(t).result]
  /\ UNCHANGED <<rules, arg, writer, fn, packVars>>

\* Stylesheet as a function of the rule, the binding and the parent alone:
\* lines 86-126 with the feed's sheet handed to the template's execution
\* instead of being read back from r.feedStyle.
RECURSIVE StylesheetOf(_, _, _)
RECURSIVE DependsOf(_, _, _, _)
DependsOf(rs, bind, parentNode, stylesheet) ==
  IF rs = <<>> THEN Result(Ptr([Rules |-> stylesheet]), Nil)
  ELSE LET result == StylesheetOf(Head(rs), bind, parentNode)
       IN IF result.err # Nil THEN Result(Nil, result.err)
          ELSE DependsOf(Tail(rs), bind, parentNode,
                         stylesheet \o Deref(result.sheet).Rules)

StylesheetOf(r, bind, parentNode) ==
  LET fed == IF rules[r].feed = 0 THEN Result(Nil, Nil)
             ELSE StylesheetOf(rules[r].feed, bind, parentNode)
  IN IF fed.err # Nil THEN Result(Nil, fed.err)
     ELSE LET deps == DependsOf(rules[r].depends, bind, parentNode, <<>>)
          IN IF deps.err # Nil THEN Result(Nil, deps.err)
             ELSE Render(r, rules[r].template, fed.sheet, Deref(deps.sheet).Rules,
                         bind, parentNode)

\* One step of the call tree of thread t.
Step(t) ==
  \/ NoFeed(t)
  \/ ResolveFeed(t)
  \/ FeedReturns(t)
  \/ ResolveDepends(t)
  \/ DependsReturns(t)
  \/ Template(t)
  \/ Return(t)

\* Sequential execution: one thread, which starts a call only after the
\* one before has returned.
Next ==
  \/ \E r \in 1..Len(rules), bind \in Bindings, parentNode \in Parents :
       Call(1, r, bind, parentNode)
  \/ Step(1)

Spec == Init /\ [][Next]_vars

\* Overlapping execution: two threads call Stylesheet on the same rules,
\* their steps interleaved, with different bindings.
ConcRules == {3, 4}
ConcBindings == Bindings \ {BindNone}
ConcParents == {<<".", "p">>}

NextConc ==
  \E t \in Threads :
    \/ \E r \in ConcRules, bind \in ConcBindings, parentNode \in ConcParents :
         Call(t, r, bind, parentNode)
    \/ Step(t)

SpecConc == Init /\ [][NextConc]_vars

----------------------------------------------------------------------------
(* What the properties below speak of.                                     *)

\* Every call in progress: the thread, and the frame of the call.
Calls == UNION {{[t |-> t, f |-> stack[t][i]] : i \in 1..Len(stack[t])} : t \in Threads}

Feed(f) == rules[f.r].feed
Depends(f) == rules[f.r].depends

IsDependsCall(c) == c.role = "depends"
\* The calls frame f has made on entries of r.depends, in the order made.
DependsCalls(f) == SelectSeq(f.calls, IsDependsCall)

Returned(f) == f.pc = "return"
Succeeded(f) == Returned(f) /\ Deref(f.result).err = Nil
Failed(f) == Returned(f) /\ Deref(f.result).err # Nil
\* The rules of the stylesheet a successful call returns.
Rules(f) == Deref(Deref(f.result).sheet).Rules

\* The call c has returned an error.
CallFailed(c) == c.result # Nil /\ Deref(c.result).err # Nil
\* The call c has returned a stylesheet.
CallSucceeded(c) == c.result # Nil /\ Deref(c.result).err = Nil

\* The rules of the stylesheets the calls cs returned, concatenated.
RECURSIVE Concat(_)
Concat(cs) ==
  IF cs = <<>> THEN <<>>
  ELSE Deref(Deref(Head(cs).result).sheet).Rules \o Concat(Tail(cs))

\* What the template of the call c.f writes, from the feedStyle of its rule.
Content(c) ==
  Execute(rules[c.f.r].template, Deref(arg[c.t]).bind, rules[c.f.r].feedStyle, <<>>).content

\* The rules of the call's own template: its output parsed and rewritten.
OwnRules(c) ==
  MorphRules(Parse(Content(c)).sheet.Rules, Deref(arg[c.t]).parentNode)

----------------------------------------------------------------------------
(* C1. A successful sequential R.Stylesheet(b, p) has called every entry   *)
(* of R.depends, in list order, and returns exactly the rules those calls  *)
(* returned, concatenated in that order, followed by R's own parsed and    *)
(* rewritten rules.                                                        *)
DependsOrdering ==
  \A c \in Calls :
    Succeeded(c.f) =>
      /\ Len(DependsCalls(c.f)) = Len(Depends(c.f))
      /\ \A i \in 1..Len(Depends(c.f)) :
           /\ DependsCalls(c.f)[i].rule = Depends(c.f)[i]
           /\ CallSucceeded(DependsCalls(c.f)[i])
      /\ Rules(c.f) = Concat(DependsCalls(c.f)) \o OwnRules(c)

\* A call with three depends entries that returned different rules, and
\* rules of its own, has succeeded.
DependsOrderingWitness ==
  \E c \in Calls :
    /\ Succeeded(c.f)
    /\ Len(Depends(c.f)) = 3
    /\ OwnRules(c) # <<>>
    /\ \A i \in 1..3 : CallSucceeded(DependsCalls(c.f)[i])
    /\ Deref(DependsCalls(c.f)[1].result).sheet # Deref(DependsCalls(c.f)[2].result).sheet
    /\ Deref(Deref(DependsCalls(c.f)[1].result).sheet).Rules # <<>>

(* C2. The feed's rules are not part of the returned stylesheet: a call on *)
(* a rule with a feed and no depends returns only the rule's own rules,    *)
(* and none when its template writes nothing.                              *)
FeedExclusion ==
  \A c \in Calls :
    (Succeeded(c.f) /\ Feed(c.f) # 0 /\ Depends(c.f) = <<>>) =>
      /\ Rules(c.f) = OwnRules(c)
      /\ Content(c) = <<>> => Rules(c.f) = <<>>

\* A call on a rule with a feed, no depends and a template that writes
\* nothing has succeeded, and its feed had returned rules.
FeedExclusionWitness ==
  \E c \in Calls :
    /\ Succeeded(c.f) /\ Feed(c.f) # 0 /\ Depends(c.f) = <<>>
    /\ Content(c) = <<>>
    /\ c.f.sheet # Nil /\ Deref(c.f.sheet).Rules # <<>>
    /\ rules[c.f.r].feedStyle = c.f.sheet

(* C3. The entries of depends are called in list order, and the first one  *)
(* that fails ends the call: no later entry is called, the template is not *)
(* executed, and the call returns no stylesheet and that entry's error.    *)
DependsShortCircuit ==
  \A c \in Calls :
    LET d == DependsCalls(c.f)
    IN /\ Len(d) <= Len(Depends(c.f))
       /\ \A i \in 1..Len(d) :
            /\ d[i].rule = Depends(c.f)[i]
            /\ i < Len(d) => CallSucceeded(d[i])
            /\ CallFailed(d[i]) =>
                 /\ c.f.calls[Len(c.f.calls)] = d[i]
                 /\ ~c.f.executed
                 /\ Returned(c.f)
                 /\ Deref(c.f.result) = Result(Nil, Deref(d[i].result).err)

\* The first of several depends entries has failed, and the call returned.
DependsShortCircuitWitness ==
  \E c \in Calls :
    /\ Len(Depends(c.f)) >= 2
    /\ Len(DependsCalls(c.f)) = 1
    /\ CallFailed(DependsCalls(c.f)[1])
    /\ Returned(c.f)

(* C4. On a rule with a feed, the feed's Stylesheet is the first call made *)
(* and has returned a stylesheet before any depends entry is called and    *)
(* before the template is executed; when it fails, nothing else is called, *)
(* the template is not executed and the feed's error is returned.          *)
FeedFirst ==
  \A c \in Calls :
    Feed(c.f) # 0 =>
      /\ c.f.pc # "feed" => c.f.calls # <<>>
      /\ c.f.calls # <<>> =>
           /\ c.f.calls[1] = [role |-> "feed", rule |-> Feed(c.f), result |-> c.f.calls[1].result]
           /\ (Len(c.f.calls) >= 2 \/ c.f.executed) => CallSucceeded(c.f.calls[1])
           /\ \A i \in 2..Len(c.f.calls) : c.f.calls[i].role = "depends"
           /\ CallFailed(c.f.calls[1]) =>
                /\ Len(c.f.calls) = 1
                /\ ~c.f.executed
                /\ Returned(c.f)
                /\ Deref(c.f.result) = Result(Nil, Deref(c.f.calls[1].result).err)

\* The feed of a rule that has depends entries failed, and the call returned.
FeedFirstWitness ==
  \E c \in Calls :
    /\ Feed(c.f) # 0 /\ Depends(c.f) # <<>>
    /\ c.f.calls # <<>> /\ CallFailed(c.f.calls[1])
    /\ Returned(c.f)

\* The feed of a rule that has depends entries succeeded, the entries were
\* called and the template executed.
FeedFirstSuccessWitness ==
  \E c \in Calls :
    /\ Feed(c.f) # 0 /\ Len(c.f.calls) >= 3 /\ c.f.executed

(* C5. In sequential execution, when the template of a rule with a feed is *)
(* executed, r.feedStyle is the stylesheet the feed returned to this call. *)
\* The template of the call is about to be executed.
AtTemplate(f) == f.pc = "depends" /\ f.index > Len(Depends(f))

FeedStyleCurrent ==
  \A c \in Calls :
    (Feed(c.f) # 0 /\ (AtTemplate(c.f) \/ c.f.executed)) =>
      /\ c.f.sheet # Nil
      /\ c.f.sheet = Deref(c.f.calls[1].result).sheet
      /\ rules[c.f.r].feedStyle = c.f.sheet
      /\ c.f.executed => Deref(c.f.seen).feedStyle = c.f.sheet

\* The template of rule 3 is about to be executed in a call on rule 7, whose
\* feed rule 3 also is, while rule 4, which shares rule 3's feed, holds the
\* stylesheet of an earlier call with another binding or parent.
FeedStyleCurrentWitness ==
  \E c \in Calls :
    /\ AtTemplate(c.f) /\ c.f.r = 3
    /\ Deref(arg[c.t]).r = 7
    /\ rules[7].feedStyle # Nil
    /\ 3 \in {Depends(stack[c.t][1])[i] : i \in 1..Len(Depends(stack[c.t][1]))}
    /\ Feed(stack[c.t][1]) = 3
    /\ rules[4].feed = rules[3].feed
    /\ rules[4].feedStyle # Nil
    /\ rules[4].feedStyle # rules[3].feedStyle

(* C6. Overlapping calls on one rule are not safe: the feedStyle that      *)
(* extend reads is always a resolved feed stylesheet, but it is the one    *)
(* this call stored only as long as no other thread's call stored its own  *)
(* in between; what is read then is the feed's stylesheet for the other    *)
(* call's binding.                                                         *)
ForeignFeedStyleOnlyFromOverlap ==
  \A c \in Calls :
    (Feed(c.f) # 0 /\ c.f.executed) =>
      LET seen == Deref(c.f.seen)
      IN /\ seen.feedStyle # Nil
         /\ seen.by # Nil
         /\ seen.feedStyle =
              StylesheetOf(Feed(c.f), Deref(seen.by).bind, Deref(seen.by).parentNode).sheet
         /\ seen.feedStyle # c.f.sheet => Deref(seen.by).thread # c.t

\* Two calls on the same rule overlap, and extend in the one has read the
\* feedStyle the other stored, resolved with the other's binding: the call
\* returns rules that it would not return alone.
ForeignFeedStyleRead ==
  \E c \in Calls :
    /\ Feed(c.f) # 0 /\ c.f.executed /\ Len(stack[c.t]) = 1
    /\ \E u \in Threads \ {c.t} :
         /\ stack[u] # <<>>
         /\ Deref(arg[u]).r = c.f.r
         /\ Deref(arg[u]).bind # Deref(arg[c.t]).bind
         /\ Deref(c.f.seen).by = Ptr([thread |-> u, bind |-> Deref(arg[u]).bind,
                                      parentNode |-> Deref(arg[u]).parentNode])
    /\ Deref(c.f.seen).feedStyle # c.f.sheet
    /\ Succeeded(c.f)
    /\ Deref(c.f.result) #
         StylesheetOf(c.f.r, Deref(arg[c.t]).bind, Deref(arg[c.t]).parentNode)

(* C7. A call has no partial success: it returns either a stylesheet and   *)
(* no error, after all depends entries and the template, with all their    *)
(* rules, or no stylesheet and an error, whatever rules it had gathered.   *)
Exclusive(result) == (result.sheet = Nil) # (result.err = Nil)

NoPartialSuccess ==
  /\ \A t \in Threads : ret[t] # Nil => Exclusive(Deref(ret[t]))
  /\ \A c \in Calls :
       Returned(c.f) =>
         /\ Exclusive(Deref(c.f.result))
         /\ Succeeded(c.f) =>
              /\ c.f.executed
              /\ c.f.index = Len(Depends(c.f)) + 1
              /\ c.f.stylesheet = Concat(DependsCalls(c.f))
              /\ Rules(c.f) = c.f.stylesheet \o OwnRules(c)
         /\ Failed(c.f) => Deref(c.f.result).sheet = Nil

\* The execution of the template failed after it had written some output,
\* in a call that had gathered the rules of its depends.
NoPartialSuccessWitness ==
  \E c \in Calls :
    /\ Failed(c.f) /\ c.f.executed
    /\ Deref(Deref(c.f.result).err).kind = "execute"
    /\ c.f.stylesheet # <<>>
    /\ Content(c) # <<>>

\* The same for a failing parse, a failing depends entry and a failing feed.
ParseFailureWitness ==
  \E c \in Calls :
    /\ Failed(c.f) /\ c.f.executed /\ c.f.stylesheet # <<>>
    /\ Deref(Deref(c.f.result).err) = [kind |-> "parse", rule |-> c.f.r]

DependsFailureWitness ==
  \E c \in Calls :
    /\ Failed(c.f) /\ ~c.f.executed /\ c.f.stylesheet # <<>>
    /\ CallFailed(c.f.calls[Len(c.f.calls)])

FeedFailureWitness ==
  \E t \in Threads :
    /\ ret[t] # Nil /\ Deref(ret[t]).err # Nil
    /\ rules[Deref(arg[t]).r].feed # 0
    /\ Deref(Deref(ret[t]).err).rule # Deref(arg[t]).r

(* C8. In sequential execution what a call returns, rules or error, is a   *)
(* function of the rule, the binding and the parent scope: it is what the  *)
(* call returns on rules no call was made on before.                       *)
CallsIndependent ==
  /\ \A t \in Threads :
       ret[t] # Nil =>
         Deref(ret[t]) =
           StylesheetOf(Deref(arg[t]).r, Deref(arg[t]).bind, Deref(arg[t]).parentNode)
  /\ \A c \in Calls :
       Returned(c.f) =>
         Deref(c.f.result) =
           StylesheetOf(c.f.r, Deref(arg[c.t]).bind, Deref(arg[c.t]).parentNode)

\* A call on rule 3 has returned a stylesheet, while rule 7, whose feed is
\* rule 3, and rule 4, which shares rule 3's feed, hold what earlier calls
\* with another binding or parent left: other stylesheets.
CallsIndependentWitness ==
  /\ ret[1] # Nil /\ Deref(ret[1]).err = Nil
  /\ Deref(arg[1]).r = 3
  /\ rules[7].feed = 3
  /\ rules[7].feedStyle # Nil /\ rules[7].feedStyle # Deref(ret[1]).sheet
  /\ writer[7] # Nil /\ Deref(writer[7]).bind # Deref(arg[1]).bind
  /\ rules[4].feed = rules[3].feed
  /\ rules[4].feedStyle # Nil /\ rules[4].feedStyle # rules[3].feedStyle

(* C9. extend is first-match-wins: for the first rule of the feed's        *)
(* stylesheet whose prelude is the name it returns that rule's             *)
(* declarations, one per line and in their order, and nothing of a later   *)
(* rule with the same prelude; parsed back, the extending rule has exactly *)
(* the first rule's declarations.                                          *)
Items == {<<"a">>, <<"b">>, <<"z">>}

\* The index of the first rule of rs with the prelude, 0 when there is none.
FirstMatch(rs, item) ==
  IF \E i \in 1..Len(rs) : rs[i].Prelude = item
    THEN CHOOSE i \in 1..Len(rs) :
           rs[i].Prelude = item /\ \A j \in 1..(i - 1) : rs[j].Prelude # item
    ELSE 0

\* The extend nodes of a template.
IsExtend(n) == n.op = "extend"
ExtendNodes(template) == SelectSeq(template, IsExtend)

ExtendFirstMatch ==
  /\ \A r \in 1..Len(rules), item \in Items :
       rules[r].feedStyle # Nil =>
         LET rs == Deref(rules[r].feedStyle).Rules
             k == FirstMatch(rs, item)
             out == extend(rules[r].feedStyle, item)
         IN k # 0 =>
              IF rs[k].Declarations = <<>> THEN out = <<>>
              ELSE LET lines == Split(out, "\n")
                   IN /\ Len(lines) = Len(rs[k].Declarations)
                      /\ \A i \in 1..Len(lines) :
                           lines[i] = DeclString(rs[k].Declarations[i])
  /\ \A c \in Calls :
       (Succeeded(c.f) /\ Feed(c.f) # 0 /\ rules[c.f.r].template = TExt) =>
         LET rs == Deref(Deref(c.f.seen).feedStyle).Rules
             k == FirstMatch(rs, ExtendNodes(TExt)[1].s)
         IN k # 0 => Rules(c.f)[Len(Rules(c.f))].Declarations = rs[k].Declarations

\* extend has run on a feed stylesheet with two rules of the prelude it
\* names, with different declarations, the first with several declarations
\* of which one is important.
ExtendFirstMatchWitness ==
  \E c \in Calls :
    /\ Succeeded(c.f) /\ Feed(c.f) # 0 /\ rules[c.f.r].template = TExt
    /\ LET rs == Deref(Deref(c.f.seen).feedStyle).Rules
           item == ExtendNodes(TExt)[1].s
           k == FirstMatch(rs, item)
       IN /\ k # 0
          /\ Len(rs[k].Declarations) >= 2
          /\ \E i \in 1..Len(rs[k].Declarations) : rs[k].Declarations[i].Important
          /\ \E j \in (k + 1)..Len(rs) :
               rs[j].Prelude = item /\ rs[j].Declarations # rs[k].Declarations

(* C10. extend returns the empty string when feedStyle is nil and when no  *)
(* rule of the feed's stylesheet has the prelude; a rule without a feed    *)
(* never has a feedStyle, so every extend of its template returns the      *)
(* empty string.                                                           *)
ExtendEmpty ==
  /\ \A r \in 1..Len(rules) : rules[r].feed = 0 => rules[r].feedStyle = Nil
  /\ \A r \in 1..Len(rules), item \in Items :
       (\/ rules[r].feedStyle = Nil
        \/ FirstMatch(Deref(rules[r].feedStyle).Rules, item) = 0) =>
         extend(rules[r].feedStyle, item) = <<>>
  /\ \A c \in Calls :
       (Feed(c.f) = 0 /\ c.f.executed) =>
         /\ Deref(c.f.seen).feedStyle = Nil
         /\ \A i \in 1..Len(ExtendNodes(rules[c.f.r].template)) :
              extend(Deref(c.f.seen).feedStyle, ExtendNodes(rules[c.f.r].template)[i].s) = <<>>

\* The template of a rule without a feed, which calls extend, has been
\* executed, and the rule it wrote has no declarations; another rule holds
\* a feed stylesheet in which one of the names has no rule.
ExtendEmptyWitness ==
  /\ \E c \in Calls :
       /\ Feed(c.f) = 0 /\ Succeeded(c.f)
       /\ ExtendNodes(rules[c.f.r].template) # <<>>
       /\ Rules(c.f) # <<>>
       /\ Rules(c.f)[Len(Rules(c.f))].Declarations = <<>>
  /\ \E r \in 1..Len(rules), item \in Items :
       /\ rules[r].feedStyle # Nil
       /\ Deref(rules[r].feedStyle).Rules # <<>>
       /\ FirstMatch(Deref(rules[r].feedStyle).Rules, item) = 0

-----------------------------------------------------------------------------
(* Rule.adjustName applied on its own, to every selector of a bounded      *)
(* length over the characters its cases tell apart.                        *)

MaxSelLen == 3
SelChars == {"a", "&", ":", " "}
Selectors == UNION {[1..n -> SelChars] : n \in 0..MaxSelLen}

InitAdjust ==
  /\ rules = <<>>
  /\ stack = [t \in Threads |-> <<>>]
  /\ arg = [t \in Threads |-> Nil]
  /\ ret = [t \in Threads |-> Nil]
  /\ writer = <<>>
  /\ fn \in {[sel |-> sel, parentNode |-> p, out |-> Nil] :
               sel \in Selectors, p \in Parents}
  /\ NoPack

AdjustName ==
  /\ fn.out = Nil
  /\ fn' = [fn EXCEPT !.out = Ptr(adjustName(fn.sel, fn.parentNode))]
  /\ UNCHANGED <<rules, stack, arg, ret, writer, packVars>>

NextAdjust == AdjustName

SpecAdjust == InitAdjust /\ [][NextAdjust]_vars

\* s[i+1..j] is s without its leading and trailing whitespace.
IsTrimOf(s, i, j) ==
  /\ \A k \in 1..i : IsSpace(s[k])
  /\ \A k \in (j + 1)..Len(s) : IsSpace(s[k])
  /\ i < j => ~IsSpace(s[i + 1]) /\ ~IsSpace(s[j])

\* The pieces of pieces[1..n], one after the other.
RECURSIVE Flatten(_, _)
Flatten(pieces, n) ==
  IF n = 0 THEN <<>> ELSE Flatten(pieces, n - 1) \o pieces[n]

\* s with parentNode in the place of each of its '&'.
Substituted(s, parentNode) ==
  Flatten([k \in 1..Len(s) |-> IF s[k] = "&" THEN parentNode ELSE <<s[k]>>], Len(s))

\* C11: adjustName(sel, parent) trims the whitespace around sel; then, if
\* sel contains '&', it returns sel with every '&' replaced by parent, also
\* when sel starts with ':'; otherwise, if sel starts with ':', it returns
\* parent immediately followed by sel.
AdjustNameCases ==
  fn.out # Nil =>
    \E i \in 0..Len(fn.sel) : \E j \in i..Len(fn.sel) :
      LET s == SubSeq(fn.sel, i + 1, j)
          out == Deref(fn.out)
      IN /\ IsTrimOf(fn.sel, i, j)
         /\ (\E k \in 1..Len(s) : s[k] = "&") =>
              out = Substituted(s, fn.parentNode)
         /\ ((\A k \in 1..Len(s) : s[k] # "&") /\ s # <<>> /\ s[1] = ":") =>
              /\ Len(out) = Len(fn.parentNode) + Len(s)
              /\ SubSeq(out, 1, Len(fn.parentNode)) = fn.parentNode
              /\ SubSeq(out, Len(fn.parentNode) + 1, Len(out)) = s

\* adjustName has rewritten a selector with whitespace around it that starts
\* with ':' and contains '&'.
AdjustNameCasesWitness ==
  /\ fn.out # Nil
  /\ fn.sel = <<" ", ":", "&">>
  /\ Deref(fn.out) = <<":">> \o fn.parentNode

\* adjustName has put the parent in front of a selector that starts with ':'
\* and contains no '&'.
AdjustNamePrefixWitness ==
  /\ fn.out # Nil
  /\ fn.sel = <<":", "a", " ">>
  /\ Deref(fn.out) = fn.parentNode \o <<":", "a">>

\* adjustName has replaced two '&' of one selector.
AdjustNameEveryWitness ==
  /\ fn.out # Nil
  /\ fn.sel = <<"&", "a", "&">>
  /\ Deref(fn.out) = fn.parentNode \o <<"a">> \o fn.parentNode

\* C12: a selector that, once the whitespace around it is trimmed, contains
\* no '&' and does not start with ':' is returned trimmed, whatever the
\* parent; with no whitespace around it, it is returned unchanged.
AdjustNameDefault ==
  fn.out # Nil =>
    \E i \in 0..Len(fn.sel) : \E j \in i..Len(fn.sel) :
      LET s == SubSeq(fn.sel, i + 1, j)
      IN /\ IsTrimOf(fn.sel, i, j)
         /\ ((\A k \in 1..Len(s) : s[k] # "&") /\ (s = <<>> \/ s[1] # ":")) =>
              /\ Deref(fn.out) = s
              /\ (i = 0 /\ j = Len(fn.sel)) => Deref(fn.out) = fn.sel

\* adjustName has returned a selector of two names unchanged.
AdjustNameDefaultWitness ==
  /\ fn.out # Nil
  /\ fn.sel = <<"a", " ", "a">>
  /\ Deref(fn.out) = fn.sel

\* adjustName has returned a selector without the whitespace around it.
AdjustNameTrimmedWitness ==
  /\ fn.out # Nil
  /\ fn.sel = <<" ", "a", " ">>
  /\ Deref(fn.out) = <<"a">>

\* C12 as stated: every selector that contains no '&' and does not start
\* with ':' is returned unchanged.
AdjustNameUnchanged ==
  (/\ fn.out # Nil
   /\ \A k \in 1..Len(fn.sel) : fn.sel[k] # "&"
   /\ fn.sel = <<>> \/ fn.sel[1] # ":") =>
    Deref(fn.out) = fn.sel

-----------------------------------------------------------------------------
(* Selector rewriting inside Rule.Stylesheet.                              *)

\* What the parser made of the output of the call's template.
Parsed(c) ==
  Parse(Execute(rules[c.f.r].template, Deref(arg[c.t]).bind,
                Deref(c.f.seen).feedStyle, <<>>).content).sheet.Rules

\* The last n rules of the stylesheet the call returned: its own rules.
Own(c, n) == SubSeq(Rules(c.f), Len(Rules(c.f)) - n + 1, Len(Rules(c.f)))

\* Each selector of each rule of out, and of each rule nested in it, is the
\* selector at the same place of parsed, rewritten for parentNode.
RECURSIVE Rewritten(_, _, _)
Rewritten(parsed, out, parentNode) ==
  /\ Len(out) = Len(parsed)
  /\ \A i \in 1..Len(parsed) :
       /\ Len(out[i].Selectors) = Len(parsed[i].Selectors)
       /\ \A k \in 1..Len(parsed[i].Selectors) :
            out[i].Selectors[k] = adjustName(parsed[i].Selectors[k], parentNode)
       /\ Rewritten(parsed[i].Rules, out[i].Rules, parentNode)

\* The depth of the deepest rule nested in rs: 1 for top-level rules.
RECURSIVE Depth(_)
Depth(rs) ==
  IF rs = <<>> THEN 0
  ELSE LET d == 1 + Depth(Head(rs).Rules)
           e == Depth(Tail(rs))
       IN IF d > e THEN d ELSE e

\* C13: after a successful R.Stylesheet(b, p), every selector of every
\* top-level rule of R's own template, and of every rule nested in its
\* at-rules at any depth, is adjustName(parsed selector, p).
SelectorsMorphed ==
  \A c \in Calls :
    Succeeded(c.f) =>
      /\ Len(Rules(c.f)) >= Len(Parsed(c))
      /\ Rewritten(Parsed(c), Own(c, Len(Parsed(c))), Deref(arg[c.t]).parentNode)

\* A call has returned a rule nested two at-rules deep whose selector "& b"
\* now starts with the parent, next to a top-level "&" that is the parent.
SelectorsMorphedWitness ==
  \E c \in Calls :
    /\ Succeeded(c.f)
    /\ Depth(Parsed(c)) = 3
    /\ LET own == Own(c, Len(Parsed(c)))
           p == Deref(arg[c.t]).parentNode
       IN /\ own[1].Selectors = <<p>>
          /\ \E i \in 1..Len(own) : \E j \in 1..Len(own[i].Rules) :
               \E k \in 1..Len(own[i].Rules[j].Rules) :
                 /\ Parsed(c)[i].Rules[j].Rules[k].Selectors = <<<<"&", " ", "b">>>>
                 /\ own[i].Rules[j].Rules[k].Selectors = <<p \o <<" ", "b">>>>

-----------------------------------------------------------------------------
(* The template helpers add, multiply and subtract (helpers, lines 12-24), *)
(* applied on their own to every pair of integers of a bounded range.      *)

add(a, b) == a + b
multiply(a, b) == a * b
\* subtract with its operands in reading order.
subtractInOrder(a, b) == a - b

subtract(a, b) == b - a

MaxInt == 3
Ints == (0 - MaxInt)..MaxInt

InitHelpers ==
  /\ rules = <<>>
  /\ stack = [t \in Threads |-> <<>>]
  /\ arg = [t \in Threads |-> Nil]
  /\ ret = [t \in Threads |-> Nil]
  /\ writer = <<>>
  /\ fn \in {[a |-> a, b |-> b, helper |-> "", out |-> 0] : a \in Ints, b \in Ints}
  /\ NoPack

\* {{add a b}}
Add ==
  /\ fn.helper = ""
  /\ fn' = [fn EXCEPT !.helper = "add", !.out = add(fn.a, fn.b)]
  /\ UNCHANGED <<rules, stack, arg, ret, writer, packVars>>

\* {{multiply a b}}
Multiply ==
  /\ fn.helper = ""
  /\ fn' = [fn EXCEPT !.helper = "multiply", !.out = multiply(fn.a, fn.b)]
  /\ UNCHANGED <<rules, stack, arg, ret, writer, packVars>>

\* {{subtract a b}}
Subtract ==
  /\ fn.helper = ""
  /\ fn' = [fn EXCEPT !.helper = "subtract", !.out = subtract(fn.a, fn.b)]
  /\ UNCHANGED <<rules, stack, arg, ret, writer, packVars>>

NextHelpers == Add \/ Multiply \/ Subtract

SpecHelpers == InitHelpers /\ [][NextHelpers]_vars

\* The sum of n numbers equal to a, for n of either sign.
RECURSIVE Times(_, _)
Times(n, a) ==
  IF n = 0 THEN 0
  ELSE IF n > 0 THEN Times(n - 1, a) + a
  ELSE Times(n + 1, a) - a

\* C14: for integers a and b of the range, add(a, b) is a + b,
\* multiply(a, b) is a * b, and subtract(a, b) is b - a: the second
\* argument minus the first.
HelpersArithmetic ==
  /\ fn.helper = "add" => fn.out - fn.b = fn.a
  /\ fn.helper = "multiply" => fn.out = Times(fn.b, fn.a)
  /\ fn.helper = "subtract" => fn.out + fn.a = fn.b

\* subtract has been applied to 3 and 1, and returned -2.
HelpersArithmeticWitness ==
  fn = [a |-> 3, b |-> 1, helper |-> "subtract", out |-> 0 - 2]

\* multiply has been applied to -2 and 3, and add to -2 and 3.
HelpersMultiplyWitness ==
  fn = [a |-> 0 - 2, b |-> 3, helper |-> "multiply", out |-> 0 - 6]

HelpersAddWitness ==
  fn = [a |-> 0 - 2, b |-> 3, helper |-> "add", out |-> 1]

-----------------------------------------------------------------------------
(* The feedStyle cache across failing calls, on rules whose calls fail at  *)
(* each point of Rule.Stylesheet: in the feed, in the depends, in the      *)
(* execution of the template and in the parsing of its output.             *)

\* 1: fails in its template without a Color; 2: its feed is 1, its output
\* never parses; 3: succeeds, its rules depend on the parent; 4: its feed is
\* 3, its template fails without a Color; 5: its feed is 1, its depends
\* entry 2 fails.
FeedHeap ==
  LET h1 == New(<<>>, TColor, 0, <<>>)
      h2 == New(h1, TBad, 1, <<>>)
      h3 == New(h2, TExt, 0, <<>>)
      h4 == New(h3, TColor, 3, <<>>)
  IN New(h4, TEmpty, 1, <<2>>)

InitFeed ==
  /\ rules = FeedHeap
  /\ stack = [t \in Threads |-> <<>>]
  /\ arg = [t \in Threads |-> Nil]
  /\ ret = [t \in Threads |-> Nil]
  /\ writer = [r \in 1..Len(FeedHeap) |-> Nil]
  /\ NoFn
  /\ NoPack

SpecFeed == InitFeed /\ [][Next]_vars

\* The call of frame f on its feed has returned an error.
FeedFailed(f) == f.calls # <<>> /\ f.calls[1].role = "feed" /\ CallFailed(f.calls[1])
\* The call of frame f on its feed has returned a stylesheet.
FeedResolved(f) == f.calls # <<>> /\ f.calls[1].role = "feed" /\ CallSucceeded(f.calls[1])

\* Thread t is at the return of a feed's call to its caller.
AtFeedReturn(t) ==
  Len(stack[t]) >= 2 /\ Returned(Top(t)) /\ Caller(t).pc = "feed"

\* A step changes the feedStyle of a rule only as the return of a successful
\* call on its feed, to the stylesheet of that call; the return of a failed
\* call on the feed fails the caller and leaves every feedStyle as it was.
FeedStyleKept ==
  /\ \A r \in 1..Len(rules) :
       rules'[r].feedStyle # rules[r].feedStyle =>
         \E t \in Threads :
           /\ AtFeedReturn(t) /\ Succeeded(Top(t)) /\ Caller(t).r = r
           /\ rules'[r].feedStyle = Deref(Top(t).result).sheet
  /\ \A t \in Threads :
       (AtFeedReturn(t) /\ Failed(Top(t)) /\ stack'[t] # stack[t]) =>
         /\ rules' = rules
         /\ Failed(stack'[t][Len(stack'[t])])
         /\ stack'[t][Len(stack'[t])].r = Caller(t).r

\* A call whose feed has resolved holds the feed's stylesheet in feedStyle,
\* also once it has failed; a call that failed in its feed made no other
\* call and did not reach its template.
FeedStyleOverwritten ==
  \A c \in Calls :
    /\ FeedResolved(c.f) => rules[c.f.r].feedStyle = Deref(c.f.calls[1].result).sheet
    /\ FeedFailed(c.f) => Failed(c.f) /\ Len(c.f.calls) = 1 /\ ~c.f.executed

\* C15: a Stylesheet call that fails during feed resolution leaves the
\* rule's feedStyle as it was before the call: nil, or the stylesheet of the
\* last call whose feed resolved; a call whose feed resolves and which fails
\* later, in depends, in the template or in parsing, has overwritten
\* feedStyle with the new stylesheet of the feed.
FeedStyleOnFailure == []FeedStyleOverwritten /\ [][FeedStyleKept]_vars

\* A call on a rule has failed in its feed, and the rule still holds the
\* stylesheet an earlier call stored, with another binding.
FeedStyleOnFailureWitness ==
  \E c \in Calls :
    /\ Failed(c.f) /\ FeedFailed(c.f)
    /\ rules[c.f.r].feedStyle # Nil
    /\ writer[c.f.r] # Nil
    /\ Deref(writer[c.f.r]).bind # Deref(arg[c.t]).bind

\* A call has failed in its depends, one in its template and one in parsing,
\* each after its feed resolved, and each rule holds the new stylesheet.
FeedStyleDependsWitness ==
  \E c \in Calls :
    /\ Failed(c.f) /\ FeedResolved(c.f)
    /\ Deref(Deref(c.f.result).err).rule # c.f.r
    /\ rules[c.f.r].feedStyle = c.f.sheet /\ c.f.sheet # Nil

FeedStyleExecuteWitness ==
  \E c \in Calls :
    /\ Failed(c.f) /\ FeedResolved(c.f)
    /\ Deref(Deref(c.f.result).err) = [kind |-> "execute", rule |-> c.f.r]
    /\ rules[c.f.r].feedStyle = c.f.sheet /\ c.f.sheet # Nil

FeedStyleParseWitness ==
  \E c \in Calls :
    /\ Failed(c.f) /\ FeedResolved(c.f)
    /\ Deref(Deref(c.f.result).err) = [kind |-> "parse", rule |-> c.f.r]
    /\ rules[c.f.r].feedStyle = c.f.sheet /\ c.f.sheet # Nil

-----------------------------------------------------------------------------
(* Construction.  The program starts without rules and builds them with    *)
(* New, whose extension and rs are rules it has already built; between     *)
(* constructions it calls Stylesheet on any of them.                       *)

MaxRules == 2
MaxDepends == 2
\* "}": a template whose output never parses.
TStray == <<Text(<<"}">>)>>
NewTemplates == {TEmpty, TStray}

\* The lists of at most MaxDepends of the first n rules.
DependsLists(n) == UNION {[1..k -> 1..n] : k \in 0..MaxDepends}

InitNew ==
  /\ rules = <<>>
  /\ stack = [t \in Threads |-> <<>>]
  /\ arg = [t \in Threads |-> Nil]
  /\ ret = [t \in Threads |-> Nil]
  /\ writer = <<>>
  /\ NoFn
  /\ NoPack

\* rsc := New(rules, extension, rs...), with no call in progress.
NewRule(template, extension, rs) ==
  /\ stack[1] = <<>>
  /\ Len(rules) < MaxRules
  /\ rules' = New(rules, template, extension, rs)
  /\ writer' = Append(writer, Nil)
  /\ UNCHANGED <<stack, arg, ret, fn, packVars>>

NextNew ==
  \/ \E template \in NewTemplates, extension \in 0..Len(rules),
        rs \in DependsLists(Len(rules)) :
       NewRule(template, extension, rs)
  \/ \E r \in 1..Len(rules) : Call(1, r, BindR, <<"q">>)
  \/ Step(1)

SpecNew == InitNew /\ [][NextNew]_vars

\* A call that is in progress takes its next step.
FairSpecNew == SpecNew /\ WF_vars(Step(1))

\* The rules r refers to: its feed and its depends entries.
Edges(r) ==
  (IF rules[r].feed = 0 THEN {} ELSE {rules[r].feed})
    \cup {rules[r].depends[i] : i \in 1..Len(rules[r].depends)}

\* The rules reached from those of rs along at most n edges.
RECURSIVE Reach(_, _)
Reach(rs, n) ==
  IF n = 0 THEN rs ELSE Reach(rs \cup UNION {Edges(r) : r \in rs}, n - 1)

\* No rule is reached from itself, and every edge leads to a rule that was
\* built before the rule that holds it.
Acyclic ==
  \A r \in 1..Len(rules) :
    /\ r \notin Reach(Edges(r), Len(rules))
    /\ \A e \in Edges(r) : e \in 1..(r - 1)

IsFeedCall(c) == c.role = "feed"

\* A call has called its feed at most once and each entry of its depends
\* at most once, in list order, and no rule is twice on a path of calls.
OncePerPath ==
  /\ \A c \in Calls :
       /\ Len(SelectSeq(c.f.calls, IsFeedCall)) <= (IF Feed(c.f) = 0 THEN 0 ELSE 1)
       /\ Len(DependsCalls(c.f)) <= Len(Depends(c.f))
       /\ \A i \in 1..Len(c.f.calls) : c.f.calls[i].rule \in Edges(c.f.r)
       /\ \A i \in 1..Len(DependsCalls(c.f)) :
            DependsCalls(c.f)[i].rule = Depends(c.f)[i]
  /\ \A t \in Threads : \A i \in 1..Len(stack[t]) : \A j \in (i + 1)..Len(stack[t]) :
       stack[t][i].r # stack[t][j].r

StylesheetPathsWitness ==
  /\ Len(stack[1]) = 2
  /\ stack[1][1].r = 2 /\ stack[1][2].r = 1
  /\ Len(stack[1][1].calls) = 3

\* A call on a rule whose second depends entry fails has returned the
\* error without going on.
StylesheetFailsWitness ==
  /\ stack[1] = <<>>
  /\ ret[1] # Nil /\ Deref(arg[1]).r = 2
  /\ Deref(ret[1]).err = Failure("parse", 1)

-----------------------------------------------------------------------------
(* The asset bundler: Webpack, its packers, Build and Compile.  A Go map   *)
(* is a set of [key, value] entries with no key twice, and a nil map is    *)
(* Nil; a Packer is a name, NilPacker the nil interface; an error is a     *)
(* pointer to its text, Nil the nil error.                                 *)

Exts == {".css", ".js"}
NilPacker == "nil"
\* Two packers whose Pack succeeds and one whose Pack fails.
Packers == {"css", "raw", "failing"}

\* m[key], ok := in Go: the zero value and false when the key is absent.
Lookup(m, key, zero) ==
  IF \E e \in m : e.key = key
    THEN [value |-> (CHOOSE e \in m : e.key = key).value, ok |-> TRUE]
    ELSE [value |-> zero, ok |-> FALSE]

\* m[key] = value on a map that was made.
Assign(m, key, value) ==
  {e \in m : e.key # key} \cup {[key |-> key, value |-> value]}

Keys(m) == {e.key : e \in m}

\* The outcome of a function that can panic: what it returns, or the panic.
Returns(value, err) == [panic |-> FALSE, value |-> value, err |-> err]
Panics(msg) == [panic |-> TRUE, value |-> Nil, err |-> Ptr(msg)]

\* packer.Pack(fileStatement, statement): the directives of the files with
\* the extension, or an error.
Pack(packer, ext) ==
  IF packer = "failing"
    THEN [directives |-> Nil, derr |-> Ptr([msg |-> "pack", ext |-> ext])]
    ELSE [directives |-> Ptr(<<[packer |-> packer, ext |-> ext]>>), derr |-> Nil]

\* GetDirStatement(dir, doGoSources): the extensions of the files of the
\* directory, or an error for a directory that cannot be read.
Dirs == {[readable |-> FALSE, exts |-> {}]} \cup {[readable |-> TRUE, exts |-> s] : s \in SUBSET Exts}
GetDirStatement(dir) ==
  IF dir.readable
    THEN [statement |-> Ptr([FilesByExt |-> dir.exts]), err |-> Nil]
    ELSE [statement |-> Nil, err |-> Ptr([msg |-> "stat", ext |-> ""])]

\* New(defaultPacker) of package assets.
NewWebpack(defaultPacker) ==
  [defaultPacker |-> defaultPacker, packers |-> {}]

InitPack ==
  /\ rules = <<>>
  /\ stack = [t \in Threads |-> <<>>]
  /\ arg = [t \in Threads |-> Nil]
  /\ ret = [t \in Threads |-> Nil]
  /\ writer = <<>>
  /\ NoFn
  /\ build = Nil
  /\ compiled = Nil
  /\ webpack \in {NewWebpack(p) : p \in Packers \cup {NilPacker}}

\* No Build is in progress, and none has panicked.
Idle == IF build = Nil THEN TRUE ELSE build.pc = "returned"

\* w.Register(ext, packer), between calls of Build; what an earlier call
\* returned is kept no longer.
Register(ext, packer) ==
  /\ Idle
  /\ webpack' = [webpack EXCEPT !.packers = Assign(@, ext, packer)]
  /\ build' = Nil
  /\ compiled' = Nil
  /\ UNCHANGED <<rules, stack, arg, ret, writer, fn>>

\* Lines 77-82: the start of w.Build(dir, doGoSources), called by the
\* program or by w.Compile.  wd is declared and never made: a nil map.
BuildCalled(caller, dir) ==
  LET got == GetDirStatement(dir)
      b == [caller |-> caller, found |-> dir.exts, err |-> got.err, wd |-> Nil,
            todo |-> dir.exts, calls |-> <<>>, pc |-> "range", result |-> Nil]
  IN IF got.err # Nil
       THEN [b EXCEPT !.pc = "returned", !.result = Ptr(Returns(Nil, got.err))]
       ELSE b

Build(dir) ==
  /\ Idle
  /\ build' = BuildCalled("Build", dir)
  /\ compiled' = Nil
  /\ UNCHANGED <<rules, stack, arg, ret, writer, fn, webpack>>

\* Line 114: w.Compile(dir, doGoSources) calls w.Build.
Compile(dir) ==
  /\ Idle
  /\ build' = BuildCalled("Compile", dir)
  /\ compiled' = Nil
  /\ UNCHANGED <<rules, stack, arg, ret, writer, fn, webpack>>

\* Line 103: wd[ext] = directives.  An assignment to an entry of a nil map
\* panics.
AssignDirectives(wd, ext, directives) ==
  IF wd = Nil THEN Panics("assignment to entry in nil map")
  ELSE Returns(Ptr(Assign(Deref(wd), ext, directives)), Nil)

\* Lines 85-103: the body of the loop for one extension of FilesByExt,
\* on the activation b of Build.
BuildBody(b, w, ext) ==
  LET found == Lookup(w.packers, ext, NilPacker)
      packer == found.value
      ok == found.ok
      rest == [b EXCEPT !.todo = @ \ {ext}]
  IN IF ~ok /\ w.defaultPacker = NilPacker
       THEN [rest EXCEPT !.pc = "returned",
                         !.result = Ptr(Returns(b.wd, Ptr([msg |-> "No Packer provided", ext |-> ext])))]
       ELSE
         LET used == IF w.defaultPacker # NilPacker /\ ~ok THEN w.defaultPacker ELSE packer
             packed == Pack(used, ext)
             called == [rest EXCEPT !.calls = Append(@, [ext |-> ext, packer |-> used,
                                                         directives |-> packed.directives,
                                                         derr |-> packed.derr])]
         IN IF packed.derr # Nil
              THEN [called EXCEPT !.pc = "returned", !.result = Ptr(Returns(b.wd, b.err))]
              ELSE
                LET assigned == AssignDirectives(b.wd, ext, packed.directives)
                IN IF assigned.panic
                     THEN [called EXCEPT !.pc = "panicked", !.result = Ptr(assigned)]
                     ELSE [called EXCEPT !.wd = assigned.value]

\* One iteration of the range over statement.FilesByExt, whose order Go
\* leaves open.
BuildRange(ext) ==
  /\ build # Nil
  /\ build.pc = "range"
  /\ ext \in build.todo
  /\ build' = BuildBody(build, webpack, ext)
  /\ UNCHANGED <<rules, stack, arg, ret, writer, fn, webpack, compiled>>

\* Line 106: return wd, nil.
BuildReturns ==
  /\ build # Nil
  /\ build.pc = "range"
  /\ build.todo = {}
  /\ build' = [build EXCEPT !.pc = "returned", !.result = Ptr(Returns(build.wd, Nil))]
  /\ UNCHANGED <<rules, stack, arg, ret, writer, fn, webpack, compiled>>

\* Lines 115-133: Compile with what Build returned: the error, or the
\* source generated from the directives.
Compiled(result) ==
  IF result.err # Nil THEN Returns(Nil, result.err)
  ELSE Returns(Ptr([Directives |-> result.value]), Nil)

CompileReturns ==
  /\ build # Nil
  /\ build.pc = "returned"
  /\ build.caller = "Compile"
  /\ compiled = Nil
  /\ compiled' = Ptr(Compiled(Deref(build.result)))
  /\ UNCHANGED <<rules, stack, arg, ret, writer, fn, webpack, build>>

NextPack ==
  \/ \E ext \in Exts, packer \in Packers : Register(ext, packer)
  \/ \E dir \in Dirs : Build(dir)
  \/ \E dir \in Dirs : Compile(dir)
  \/ \E ext \in Exts : BuildRange(ext)
  \/ BuildReturns
  \/ CompileReturns

SpecPack == InitPack /\ [][NextPack]_vars

\* Build has ended: it has returned or it has panicked.
Ended == build # Nil /\ build.pc \in {"returned", "panicked"}
Panicked == build # Nil /\ build.pc = "panicked"
\* The error Build returned; Nil is the nil error.
BuildErr == Deref(build.result).err

\* The calls of Pack that Build made for ext.
PackCalls(ext) == {i \in 1..Len(build.calls) : build.calls[i].ext = ext}
\* A call of Pack that Build made returned an error.
PackFailed == \E i \in 1..Len(build.calls) : build.calls[i].derr # Nil
\* The packer for ext: the registered one, else the default one.
PackerFor(ext) ==
  IF ext \in Keys(webpack.packers)
    THEN (CHOOSE e \in webpack.packers : e.key = ext).value
    ELSE webpack.defaultPacker
\* The extensions found for which there is no packer at all.
Unpacked == {ext \in build.found : PackerFor(ext) = NilPacker}

\* The map Build returned, a nil map read as an empty one.
BuildMap ==
  IF Deref(build.result).value = Nil THEN {} ELSE Deref(Deref(build.result).value)

\* What Build does after a Pack that succeeded: the assignment of line 103
\* panics, wd being nil, so that Build never returns after such a Pack and
\* never makes a second call of Pack.
NilMapWrite ==
  build # Nil =>
    /\ build.wd = Nil
    /\ Len(build.calls) <= 1
    /\ (\E i \in 1..Len(build.calls) : build.calls[i].derr = Nil) <=> Panicked

\* What Build returns after a Pack that failed: err of line 77, which is
\* nil, with the nil map; Compile then generates its source.
PackErrorDropped ==
  /\ (Ended /\ PackFailed) => Deref(build.result) = Returns(Nil, Nil)
  /\ (compiled # Nil /\ PackFailed) =>
       Deref(compiled) = Returns(Ptr([Directives |-> Nil]), Nil)

\* C17: Build dispatches each extension found in the directory to exactly
\* one packer, the one registered for it or else the default one; with no
\* packer registered for an extension and a nil default packer, it calls no
\* packer for the extension and returns a non-nil error that names it.
PackerDispatch ==
  Ended =>
    /\ \A i \in 1..Len(build.calls) :
         /\ build.calls[i].ext \in build.found
         /\ build.calls[i].packer = PackerFor(build.calls[i].ext)
         /\ build.calls[i].packer # NilPacker
    /\ \A ext \in build.found : Cardinality(PackCalls(ext)) <= 1
    /\ (build.err = Nil /\ Unpacked = {} /\ ~PackFailed) =>
         \A ext \in build.found : Cardinality(PackCalls(ext)) = 1
    /\ (build.err = Nil /\ Unpacked # {} /\ ~PackFailed) =>
         /\ ~Panicked
         /\ BuildErr # Nil
         /\ Deref(BuildErr).ext \in Unpacked
         /\ PackCalls(Deref(BuildErr).ext) = {}

\* C18: when the directory is read and every Pack succeeds, Build does not
\* panic and returns a nil error with a map that holds, for each extension
\* found, the directives its packer returned.
BuildCompletes ==
  (/\ Ended
   /\ build.err = Nil
   /\ \A ext \in build.found : PackerFor(ext) \notin {NilPacker, "failing"}) =>
    /\ ~Panicked
    /\ BuildErr = Nil
    /\ Keys(BuildMap) = build.found
    /\ \A ext \in build.found :
         Lookup(BuildMap, ext, Nil).value = Pack(PackerFor(ext), ext).directives

\* C19: Build never returns a nil error when a Pack returned an error: it
\* stops at the first Pack that fails and returns a non-nil error, and
\* Compile does not generate source from the directives.
PackErrorReported ==
  /\ (Ended /\ PackFailed) =>
       /\ ~Panicked
       /\ BuildErr # Nil
       /\ build.calls[Len(build.calls)].derr # Nil
  /\ (compiled # Nil /\ PackFailed) =>
       /\ Deref(compiled).err # Nil
       /\ Deref(compiled).value = Nil

====
